---- MODULE Spec2Model ----
(***************************************************************************)
(* komle.soap_client: a StoreClient wraps one suds SOAP client whose       *)
(* transport (RequestsTransport) posts every request with HTTP Basic       *)
(* credentials and a TLS verify setting.  Each get_* operation wraps the   *)
(* caller's query object in a fresh singleton collection, issues one       *)
(* WMLS_GetFromStore request and hands the reply to _parse_reply, which    *)
(* branches on the numeric Result code.                                    *)
(*                                                                         *)
(* Python's None / "no value yet" is the empty sequence <<>>, a present    *)
(* value v is <<v>>.  Strings are TLA+ strings, f-strings are \o.          *)
(***************************************************************************)
EXTENDS Integers, Sequences, FiniteSets, TLC

VARIABLES
    ctor,         \* the arguments StoreClient(...) was constructed with
    soap_client,  \* self.soap_client: transport (auth, verify) and options
    pc,           \* "idle" | "send" | "parse": where the current call stands
    calls,        \* number of get_* calls started on this client
    call,         \* <<>> or <<[op, q, returnElements]>>: the current call's arguments
    request,      \* <<>> or <<r>>: the suds request of the latest call
    sent,         \* the HTTP posts made during the current call, in order
    resp,         \* <<>> or <<r>>: the HTTP response to the current call's post
    reply,        \* <<>> or <<r>>: the unmarshalled reply of the current call
    outcome       \* how the latest call ended (kind "none" while it runs)

vars ==
    <<ctor, soap_client, pc, calls, call, request, sent, resp, reply, outcome>>

----------------------------------------------------------------------------
(* Bounds *)

MaxCalls == 2        \* get_* calls per behaviour
MaxResult == 3       \* largest Result code the store answers with
MaxNegResult == 1    \* the store's smallest Result code is -MaxNegResult

----------------------------------------------------------------------------
(* The WITSML object model (binding library), as far as the client uses it *)

witsml_version == "1.4.1.1"

\* singular object type -> the plural collection type holding it
Plural ==
    [bhaRun |-> "bhaRuns", log |-> "logs", mudLog |-> "mudLogs",
     trajectory |-> "trajectorys", wellbore |-> "wellbores",
     tubular |-> "tubulars", fluidsReport |-> "fluidsReports",
     drillReport |-> "drillReports", wbGeometry |-> "wbGeometrys",
     formationMarker |-> "formationMarkers"]

ObjectTypes == DOMAIN Plural

Collections == {Plural[t] : t \in ObjectTypes}

SingularOf(plural) == CHOOSE t \in ObjectTypes : Plural[t] = plural

Uids == {"", "W-1"}

\* witsml.obj_<type>(uid=...): a query object; uid "" is the empty query
obj(type, uid) == [type |-> type, uid |-> uid]

\* witsml.<plural>(version=...): a new, empty collection
witsml_collection(plural, version) ==
    [kind |-> plural, version |-> version, items |-> <<>>]

\* collection.append(q)
append(coll, q) == [coll EXCEPT !.items = Append(@, q)]

\* An XML document is its sequence of tags.
OpenTag(name, version) == [tag |-> "open", name |-> name, attr |-> version]
ElemTag(q) == [tag |-> "elem", name |-> q.type, attr |-> q.uid]
CloseTag(name) == [tag |-> "close", name |-> name, attr |-> ""]

\* collection.toxml()
toxml(coll) ==
    <<OpenTag(coll.kind, coll.version)>>
    \o [i \in 1..Len(coll.items) |-> ElemTag(coll.items[i])]
    \o <<CloseTag(coll.kind)>>

\* Whether the binding library accepts a document: well formed (a root
\* opened and closed), a root element of the schema, and only children of
\* the root's object type.
Validates(doc) ==
    /\ Len(doc) >= 2
    /\ doc[1].tag = "open"
    /\ doc[Len(doc)].tag = "close"
    /\ doc[Len(doc)].name = doc[1].name
    /\ doc[1].name \in Collections
    /\ \A i \in 2..(Len(doc) - 1) :
          /\ doc[i].tag = "elem"
          /\ doc[i].name = SingularOf(doc[1].name)

\* witsml.CreateFromDocument(doc): <<object>>, or <<>> when it raises
CreateFromDocument(doc) ==
    IF Validates(doc)
    THEN <<[kind |-> doc[1].name,
            version |-> doc[1].attr,
            items |-> [i \in 1..(Len(doc) - 2) |->
                          obj(doc[i + 1].name, doc[i + 1].attr)]]>>
    ELSE <<>>

----------------------------------------------------------------------------
(* Construction: RequestsTransport.__init__, simple_client, StoreClient.__init__ *)

ServiceUrls == {"https://store.example/WMLS"}
Usernames == {"alice", "bob"}
Passwords == {"s3cret"}
AgentNames == {"komle"}
VerifySettings == {"True", "/etc/ssl/cacerts.pem"}

\* A transport that never takes the caller's verify setting
RequestsTransport__init__default_verify(kwargs) ==
    [verify |-> "True",
     auth |-> <<kwargs.username, kwargs.password>>]

\* RequestsTransport(**kwargs): pops verify, username and password
RequestsTransport__init__(kwargs) ==
    [verify |-> kwargs.verify,
     auth |-> <<kwargs.username, kwargs.password>>]

\* simple_client(...): the suds client, its transport and its options
simple_client(service_url, username, password, agent_name, verify) ==
    [transport |-> RequestsTransport__init__(
                       [username |-> username, password |-> password,
                        verify |-> verify]),
     location |-> service_url,
     headers |-> [User_Agent |-> agent_name]]

\* StoreClient(...): self.soap_client = simple_client(...)
StoreClient__init__(args) ==
    simple_client(args.service_url, args.username, args.password,
                  args.agent_name, args.verify)

NoOutcome ==
    [kind |-> "none", value |-> <<>>, message |-> "", reply |-> <<>>,
     deserialized |-> FALSE]

Init ==
    /\ ctor \in [service_url : ServiceUrls, username : Usernames,
                 password : Passwords, agent_name : AgentNames,
                 verify : VerifySettings]
    /\ soap_client = StoreClient__init__(ctor)
    /\ pc = "idle"
    /\ calls = 0
    /\ call = <<>>
    /\ request = <<>>
    /\ sent = <<>>
    /\ resp = <<>>
    /\ reply = <<>>
    /\ outcome = NoOutcome

----------------------------------------------------------------------------
(* The get_* operations *)

\* The values of returnElements the store recognizes, and one it does not
RecognizedReturnElements ==
    {"all", "id-only", "header-only", "data-only", "station-location-only",
     "latest-change-only", "requested"}

\* What a caller passes as returnElements: nothing (<<>>) or any string
ReturnElementsArgs ==
    {<<>>} \cup {<<v>> : v \in RecognizedReturnElements \cup {"everything"}}

\* A keyword argument with a default
Arg(given, default) == IF given = <<>> THEN default ELSE given[1]

\* The option string with its key misspelt
OptionsIn_misspelt(returnElements) == "returnElement=" \o returnElements

\* f'returnElements={returnElements}'
OptionsIn(returnElements) == "returnElements=" \o returnElements

\* soap_client.service.WMLS_GetFromStore(WMLtypeIn, XMLin, OptionsIn=...):
\* the request suds builds from the client's options
WMLS_GetFromStore(WMLtypeIn, XMLin, options) ==
    [url |-> soap_client.location,
     headers |-> soap_client.headers,
     message |-> [WMLtypeIn |-> WMLtypeIn, XMLin |-> XMLin,
                  OptionsIn |-> options]]

\* The shared body with one collection per type kept between calls: the
\* query is appended to what the previous call of the same type sent
GetFromStore_shared_collection(op, plural, WMLtypeIn, q, given, default) ==
    LET returnElements == Arg(given, default)
        kept == IF request # <<>> /\ request[1].message.WMLtypeIn = WMLtypeIn
                THEN CreateFromDocument(request[1].message.XMLin)[1]
                ELSE witsml_collection(plural, witsml_version)
        q_s == append(kept, q)
    IN /\ calls' = calls + 1
       /\ call' = <<[op |-> op, q |-> q, returnElements |-> given]>>
       /\ request' = <<WMLS_GetFromStore(WMLtypeIn, toxml(q_s),
                                         OptionsIn(returnElements))>>
       /\ sent' = <<>>
       /\ resp' = <<>>
       /\ reply' = <<>>
       /\ outcome' = NoOutcome
       /\ pc' = "send"
       /\ UNCHANGED <<ctor, soap_client>>

\* The body every get_* operation shares, up to the remote call
GetFromStore(op, plural, WMLtypeIn, q, given, default) ==
    LET returnElements == Arg(given, default)
        q_s == append(witsml_collection(plural, witsml_version), q)
    IN /\ calls' = calls + 1
       /\ call' = <<[op |-> op, q |-> q, returnElements |-> given]>>
       /\ request' = <<WMLS_GetFromStore(WMLtypeIn, toxml(q_s),
                                         OptionsIn(returnElements))>>
       /\ sent' = <<>>
       /\ resp' = <<>>
       /\ reply' = <<>>
       /\ outcome' = NoOutcome
       /\ pc' = "send"
       /\ UNCHANGED <<ctor, soap_client>>

get_bhaRuns ==
    /\ pc = "idle"
    /\ calls < MaxCalls
    /\ \E uid \in Uids, returnElements \in ReturnElementsArgs :
            GetFromStore("get_bhaRuns", "bhaRuns", "bhaRun",
                         obj("bhaRun", uid), returnElements, "id-only")

get_logs ==
    /\ pc = "idle"
    /\ calls < MaxCalls
    /\ \E uid \in Uids, returnElements \in ReturnElementsArgs :
            GetFromStore("get_logs", "logs", "log",
                         obj("log", uid), returnElements, "id-only")

\* get_mudLogs asking the store for objects of type 'log'
get_mudLogs_as_log ==
    /\ pc = "idle"
    /\ calls < MaxCalls
    /\ \E uid \in Uids, returnElements \in ReturnElementsArgs :
            GetFromStore("get_mudLogs", "mudLogs", "log",
                         obj("mudLog", uid), returnElements, "id-only")

get_mudLogs ==
    /\ pc = "idle"
    /\ calls < MaxCalls
    /\ \E uid \in Uids, returnElements \in ReturnElementsArgs :
            GetFromStore("get_mudLogs", "mudLogs", "mudLog",
                         obj("mudLog", uid), returnElements, "id-only")

get_trajectorys ==
    /\ pc = "idle"
    /\ calls < MaxCalls
    /\ \E uid \in Uids, returnElements \in ReturnElementsArgs :
            GetFromStore("get_trajectorys", "trajectorys", "trajectory",
                         obj("trajectory", uid), returnElements, "id-only")

get_wellbores ==
    /\ pc = "idle"
    /\ calls < MaxCalls
    /\ \E uid \in Uids, returnElements \in ReturnElementsArgs :
            GetFromStore("get_wellbores", "wellbores", "wellbore",
                         obj("wellbore", uid), returnElements, "id-only")

get_tubulars ==
    /\ pc = "idle"
    /\ calls < MaxCalls
    /\ \E uid \in Uids, returnElements \in ReturnElementsArgs :
            GetFromStore("get_tubulars", "tubulars", "tubular",
                         obj("tubular", uid), returnElements, "id-only")

get_fluidsReports ==
    /\ pc = "idle"
    /\ calls < MaxCalls
    /\ \E uid \in Uids, returnElements \in ReturnElementsArgs :
            GetFromStore("get_fluidsReports", "fluidsReports", "fluidsReport",
                         obj("fluidsReport", uid), returnElements, "id-only")

get_drillReports ==
    /\ pc = "idle"
    /\ calls < MaxCalls
    /\ \E uid \in Uids, returnElements \in ReturnElementsArgs :
            GetFromStore("get_drillReports", "drillReports", "drillReport",
                         obj("drillReport", uid), returnElements, "id-only")

\* get_wbGeometrys with 'all' as the default of returnElements
get_wbGeometrys_default_all ==
    /\ pc = "idle"
    /\ calls < MaxCalls
    /\ \E uid \in Uids, returnElements \in ReturnElementsArgs :
            GetFromStore("get_wbGeometrys", "wbGeometrys", "wbGeometry",
                         obj("wbGeometry", uid), returnElements, "all")

get_wbGeometrys ==
    /\ pc = "idle"
    /\ calls < MaxCalls
    /\ \E uid \in Uids, returnElements \in ReturnElementsArgs :
            GetFromStore("get_wbGeometrys", "wbGeometrys", "wbGeometry",
                         obj("wbGeometry", uid), returnElements, "id-only")

get_formationMarkers ==
    /\ pc = "idle"
    /\ calls < MaxCalls
    /\ \E uid \in Uids, returnElements \in ReturnElementsArgs :
            GetFromStore("get_formationMarkers", "formationMarkers",
                         "formationMarker", obj("formationMarker", uid),
                         returnElements, "id-only")

----------------------------------------------------------------------------
(* The store's side: what can come back for a posted request *)

ResultCodes == (0 - MaxNegResult)..MaxResult

SuppMsgs == {"", "Function failed"}

OtherType(type) == IF type = "log" THEN "trajectory" ELSE "log"

StoredCollection(type) ==
    append(witsml_collection(Plural[type], witsml_version), obj(type, "W-1"))

\* The documents a store may place in XMLout when asked for `type`: nothing,
\* an unclosed root, a root with a child the schema forbids, a collection
\* of the requested type, a collection of another type.
StoreDocuments(type) ==
    {<<>>,
     <<OpenTag(Plural[type], witsml_version)>>,
     <<OpenTag(Plural[type], witsml_version),
       ElemTag(obj(OtherType(type), "W-1")),
       CloseTag(Plural[type])>>,
     toxml(StoredCollection(type)),
     toxml(StoredCollection(OtherType(type)))}

StoreReplies(type) ==
    [Result : ResultCodes, SuppMsgOut : SuppMsgs, XMLout : StoreDocuments(type)]

HttpStatuses == {200, 404, 500}

\* A status check that lets client errors (4xx) through
raise_for_status_server_only(status_code) ==
    status_code >= 500 /\ status_code < 600

\* resp.raise_for_status(): TRUE when it raises (4xx and 5xx)
raise_for_status(status_code) == status_code >= 400 /\ status_code < 600

\* An HTTP response: a status and the reply its body unmarshals to.  An
\* error response may well carry a body that looks like a success.
HttpResponses(type) ==
    {[status_code |-> s, content |-> c] :
        s \in {x \in HttpStatuses : ~raise_for_status(x)},
        c \in StoreReplies(type)}
    \cup
    {[status_code |-> s,
      content |-> [Result |-> 1, SuppMsgOut |-> "",
                   XMLout |-> toxml(StoredCollection(type))]] :
        s \in {x \in HttpStatuses : raise_for_status(x)}}

----------------------------------------------------------------------------
(* RequestsTransport.send *)

\* requests.post(request.url, data=..., headers=..., verify=..., auth=...)
requests_post(r, transport) ==
    [url |-> r.url, data |-> r.message, headers |-> r.headers,
     verify |-> transport.verify, auth |-> transport.auth]

HTTPError(status_code) ==
    [kind |-> "HTTPError", value |-> <<>>, message |-> ToString(status_code),
     reply |-> <<>>, deserialized |-> FALSE]

RequestsTransport_send ==
    /\ pc = "send"
    /\ \E r \in HttpResponses(request[1].message.WMLtypeIn) :
          /\ sent' = Append(sent, requests_post(request[1], soap_client.transport))
          /\ resp' = <<r>>
          /\ IF raise_for_status(r.status_code)
             THEN /\ outcome' = HTTPError(r.status_code)
                  /\ reply' = reply
                  /\ pc' = "idle"
             ELSE /\ reply' = <<r.content>>
                  /\ outcome' = outcome
                  /\ pc' = "parse"
    /\ UNCHANGED <<ctor, soap_client, calls, call, request>>

----------------------------------------------------------------------------
(* _parse_reply and StoreException *)

\* The deserialization without its return statement: None comes back
Return_CreateFromDocument_no_return(XMLout) ==
    LET o == CreateFromDocument(XMLout)
    IN [kind |-> IF o = <<>> THEN "pyxb" ELSE "returned",
        value |-> <<>>, message |-> "", reply |-> <<>>, deserialized |-> TRUE]

\* The deserialization with the library's failure caught and re-raised as
\* a StoreException
Return_CreateFromDocument_translated(XMLout) ==
    LET o == CreateFromDocument(XMLout)
    IN [kind |-> IF o = <<>> THEN "StoreException" ELSE "returned",
        value |-> o, message |-> "", reply |-> <<>>, deserialized |-> TRUE]

\* return witsml.CreateFromDocument(reply.XMLout): the object, or the
\* binding library's exception passing through
Return_CreateFromDocument(XMLout) ==
    LET o == CreateFromDocument(XMLout)
    IN [kind |-> IF o = <<>> THEN "pyxb" ELSE "returned",
        value |-> o, message |-> "", reply |-> <<>>, deserialized |-> TRUE]

\* raise StoreException(reply)
StoreException(r) ==
    [kind |-> "StoreException", value |-> <<>>,
     message |-> ToString(r.Result) \o ": " \o r.SuppMsgOut,
     reply |-> <<r>>, deserialized |-> FALSE]

\* Variants of the Result branch, each one slip away from the code
ParseReplyOutcome_partial_is_error(r) ==
    IF r.Result = 1
    THEN Return_CreateFromDocument(r.XMLout)
    ELSE StoreException(r)

ParseReplyOutcome_positive_is_success(r) ==
    IF r.Result >= 1
    THEN Return_CreateFromDocument(r.XMLout)
    ELSE StoreException(r)

\* The Result branch with the partial success (code 2) noted on what the
\* caller gets back
ParseReplyOutcome_partial_marked(r) ==
    IF r.Result = 1
    THEN Return_CreateFromDocument(r.XMLout)
    ELSE IF r.Result = 2
    THEN [Return_CreateFromDocument(r.XMLout) EXCEPT !.message = "partial"]
    ELSE StoreException(r)

ParseReplyOutcome(r) ==
    IF r.Result = 1
    THEN Return_CreateFromDocument(r.XMLout)
    ELSE IF r.Result = 2
    THEN Return_CreateFromDocument(r.XMLout)
    ELSE StoreException(r)

_parse_reply ==
    /\ pc = "parse"
    /\ outcome' = ParseReplyOutcome(reply[1])
    /\ pc' = "idle"
    /\ UNCHANGED <<ctor, soap_client, calls, call, request, sent, resp, reply>>

----------------------------------------------------------------------------

Next ==
    \/ get_bhaRuns
    \/ get_logs
    \/ get_mudLogs
    \/ get_trajectorys
    \/ get_wellbores
    \/ get_tubulars
    \/ get_fluidsReports
    \/ get_drillReports
    \/ get_wbGeometrys
    \/ get_formationMarkers
    \/ RequestsTransport_send
    \/ _parse_reply

Spec == Init /\ [][Next]_vars

----------------------------------------------------------------------------
(* Properties *)

\* The latest call went through _parse_reply and has ended
Parsed == pc = "idle" /\ reply # <<>>

\* C1: a reply with Result 1 or 2 and a valid XMLout makes the get_*
\* operation return the object deserialized from XMLout (serializing the
\* returned object gives XMLout back) and raise nothing; code 2 succeeds
\* exactly like code 1.
C1_SuccessReturnsDeserialized ==
    (Parsed /\ reply[1].Result \in {1, 2} /\ Validates(reply[1].XMLout))
        => /\ outcome.kind = "returned"
           /\ Len(outcome.value) = 1
           /\ toxml(outcome.value[1]) = reply[1].XMLout
           /\ outcome.value = CreateFromDocument(reply[1].XMLout)

C1_Witness ==
    /\ Parsed
    /\ reply[1].Result = 2
    /\ Validates(reply[1].XMLout)
    /\ outcome.kind = "returned"

\* C2: a reply whose Result is neither 1 nor 2 ends the get_* operation
\* with a StoreException whose text is '<Result>: <SuppMsgOut>' and whose
\* .reply is the reply, whatever XMLout holds; nothing is returned and
\* XMLout is never deserialized.
C2_ErrorCodeRaisesStoreException ==
    (Parsed /\ reply[1].Result \notin {1, 2})
        => /\ outcome.kind = "StoreException"
           /\ outcome.message
                = ToString(reply[1].Result) \o ": " \o reply[1].SuppMsgOut
           /\ outcome.reply = reply
           /\ outcome.value = <<>>
           /\ ~outcome.deserialized

C2_Witness ==
    /\ Parsed
    /\ reply[1].Result = 3
    /\ Validates(reply[1].XMLout)
    /\ outcome.kind = "StoreException"
    /\ outcome.message = "3: Function failed"

\* The collection type and the WMLtypeIn each operation stands for
ExpectedCollection ==
    [get_bhaRuns |-> "bhaRuns", get_logs |-> "logs",
     get_mudLogs |-> "mudLogs", get_trajectorys |-> "trajectorys",
     get_wellbores |-> "wellbores", get_tubulars |-> "tubulars",
     get_fluidsReports |-> "fluidsReports",
     get_drillReports |-> "drillReports",
     get_wbGeometrys |-> "wbGeometrys",
     get_formationMarkers |-> "formationMarkers"]

ExpectedWMLtypeIn ==
    [get_bhaRuns |-> "bhaRun", get_logs |-> "log",
     get_mudLogs |-> "mudLog", get_trajectorys |-> "trajectory",
     get_wellbores |-> "wellbore", get_tubulars |-> "tubular",
     get_fluidsReports |-> "fluidsReport",
     get_drillReports |-> "drillReport",
     get_wbGeometrys |-> "wbGeometry",
     get_formationMarkers |-> "formationMarker"]

C4_OneRequestWithMatchingType ==
    /\ Len(sent) = (IF pc = "send" \/ calls = 0 THEN 0 ELSE 1)
    /\ call # <<>> =>
          /\ request[1].message.WMLtypeIn = ExpectedWMLtypeIn[call[1].op]
          /\ \A i \in 1..Len(sent) :
                sent[i].data.WMLtypeIn = ExpectedWMLtypeIn[call[1].op]

C4_Witness ==
    /\ pc = "idle"
    /\ calls = 2
    /\ call[1].op = "get_formationMarkers"
    /\ outcome.kind = "StoreException"
    /\ Len(sent) = 1
    /\ sent[1].data.WMLtypeIn = "formationMarker"

\* C5: the XMLin of every request is the serialization of a collection of
\* the operation's plural type holding exactly one element, the query
\* object of this call, and nothing from an earlier call.
C5_XMLinIsFreshSingleton ==
    call # <<>> =>
        LET expected ==
                <<[tag |-> "open", name |-> ExpectedCollection[call[1].op],
                   attr |-> "1.4.1.1"],
                  [tag |-> "elem", name |-> call[1].q.type,
                   attr |-> call[1].q.uid],
                  [tag |-> "close", name |-> ExpectedCollection[call[1].op],
                   attr |-> ""]>>
        IN /\ request[1].message.XMLin = expected
           /\ \A i \in 1..Len(sent) : sent[i].data.XMLin = expected
           /\ CreateFromDocument(request[1].message.XMLin)[1].items
                = <<call[1].q>>

C5_Witness ==
    /\ calls = 2
    /\ Len(sent) = 1
    /\ call[1].op = "get_wellbores"
    /\ call[1].q = [type |-> "wellbore", uid |-> "W-1"]
    /\ Len(sent[1].data.XMLin) = 3
    /\ sent[1].data.XMLin[2].attr = "W-1"

SevenOptions ==
    {"returnElements=all", "returnElements=id-only",
     "returnElements=header-only", "returnElements=data-only",
     "returnElements=station-location-only",
     "returnElements=latest-change-only", "returnElements=requested"}

\* C6 as stated: the OptionsIn of every request is 'returnElements=<v>'
\* with <v> one of the seven recognized values.
C6_OptionsInAlwaysRecognized ==
    /\ request # <<>> => request[1].message.OptionsIn \in SevenOptions
    /\ \A i \in 1..Len(sent) : sent[i].data.OptionsIn \in SevenOptions

\* C6 as amended: the OptionsIn of every request is 'returnElements=<v>'
\* with <v> the returnElements argument of the call, passed through as
\* given (id-only when omitted); it is one of the seven recognized values
\* exactly when the caller omitted the argument or passed one of them.
C6_OptionsInIsTheArgument ==
    call # <<>> =>
        LET v == IF call[1].returnElements = <<>>
                 THEN "id-only" ELSE call[1].returnElements[1]
            recognized ==
                v \in {"all", "id-only", "header-only", "data-only",
                       "station-location-only", "latest-change-only",
                       "requested"}
        IN /\ request[1].message.OptionsIn = "returnElements=" \o v
           /\ \A i \in 1..Len(sent) :
                 sent[i].data.OptionsIn = "returnElements=" \o v
           /\ recognized <=> request[1].message.OptionsIn \in SevenOptions

C6_Witness ==
    /\ Len(sent) = 1
    /\ call[1].returnElements = <<"station-location-only">>
    /\ sent[1].data.OptionsIn = "returnElements=station-location-only"

\* C7: on Result 1 or 2 with an XMLout that is empty, malformed or not
\* valid against the schema, the get_* operation ends with the binding
\* library's exception: not a StoreException, and nothing is returned.
C7_InvalidXMLoutPropagates ==
    (Parsed /\ reply[1].Result \in {1, 2} /\ ~Validates(reply[1].XMLout))
        => /\ outcome.kind = "pyxb"
           /\ outcome.value = <<>>
           /\ outcome.reply = <<>>

C7_Witness ==
    /\ Parsed
    /\ reply[1].Result = 2
    /\ reply[1].XMLout = <<>>
    /\ outcome.kind = "pyxb"

\* C8: the client keeps the credentials, verify setting, service location
\* and User-Agent it was constructed with, and every request it posts
\* carries exactly those, whatever the earlier calls ended with.
C8_CredentialsAndVerifyKept ==
    /\ soap_client.transport.auth = <<ctor.username, ctor.password>>
    /\ soap_client.transport.verify = ctor.verify
    /\ soap_client.location = ctor.service_url
    /\ soap_client.headers = [User_Agent |-> ctor.agent_name]
    /\ \A i \in 1..Len(sent) :
          /\ sent[i].auth = <<ctor.username, ctor.password>>
          /\ sent[i].verify = ctor.verify
          /\ sent[i].url = ctor.service_url
          /\ sent[i].headers = [User_Agent |-> ctor.agent_name]

C8_Witness ==
    /\ calls = 2
    /\ pc = "idle"
    /\ outcome.kind = "HTTPError"
    /\ Len(sent) = 1
    /\ sent[1].auth = <<"bob", "s3cret">>
    /\ sent[1].verify = "/etc/ssl/cacerts.pem"

\* C9: a get_* call without a returnElements argument sends the OptionsIn
\* 'returnElements=id-only', for each of the ten operations.
C9_DefaultIsIdOnly ==
    (call # <<>> /\ call[1].returnElements = <<>>)
        => /\ request[1].message.OptionsIn = "returnElements=id-only"
           /\ \A i \in 1..Len(sent) :
                 sent[i].data.OptionsIn = "returnElements=id-only"

C9_Witness ==
    /\ Len(sent) = 1
    /\ call[1].op = "get_wbGeometrys"
    /\ call[1].returnElements = <<>>
    /\ sent[1].data.OptionsIn = "returnElements=id-only"

\* C10: an HTTP response with a 4xx or 5xx status makes send raise the
\* HTTP error before a Reply exists: the call ends there, with no
\* collection returned, no StoreException and _parse_reply never reached.
C10_HttpErrorRaisedBeforeReply ==
    (resp # <<>> /\ resp[1].status_code >= 400 /\ resp[1].status_code <= 599)
        => /\ pc = "idle"
           /\ reply = <<>>
           /\ outcome.kind = "HTTPError"
           /\ outcome.value = <<>>
           /\ ~outcome.deserialized

C10_Witness ==
    /\ resp # <<>>
    /\ resp[1].status_code = 404
    /\ resp[1].content.Result = 1
    /\ Validates(resp[1].content.XMLout)
    /\ outcome.kind = "HTTPError"
    /\ reply = <<>>

\* C11: two replies with the same XMLout, one with Result 1 and one with
\* Result 2, end a get_* operation the same way: what the call ended with
\* is what it would have ended with under the other code, it carries
\* neither the code nor the reply, and the client's state is what the
\* constructor set.
C11_PartialSuccessNotSurfaced ==
    (Parsed /\ reply[1].Result \in {1, 2})
        => LET twin == [reply[1] EXCEPT !.Result = 3 - @]
           IN /\ twin.Result \in {1, 2} \ {reply[1].Result}
              /\ outcome = ParseReplyOutcome(twin)
              /\ outcome.kind \in {"returned", "pyxb"}
              /\ outcome.message = ""
              /\ outcome.reply = <<>>
              /\ soap_client = StoreClient__init__(ctor)

C11_Witness ==
    /\ Parsed
    /\ reply[1].Result = 2
    /\ outcome.kind = "returned"
    /\ Len(outcome.value) = 1
    /\ Len(outcome.value[1].items) = 1
    /\ outcome = ParseReplyOutcome([reply[1] EXCEPT !.Result = 1])

====
